---------------------------- MODULE Spec2Model ----------------------------
(***************************************************************************)
(* A model of the GCDF-BRI local map application (app.py, utils.py).       *)
(*                                                                         *)
(* app.py is a Streamlit script: every user interaction runs it from top  *)
(* to bottom once (one "pass"): sidebar widgets, load, column detection   *)
(* and manual override, filter widgets, filters, simplification,          *)
(* diagnostics, geometry partition and main layers, overlays, summary and *)
(* export.  The model follows one pass through these sections.            *)
(*                                                                         *)
(* Data.  A text value is a sequence of one-character strings, so that    *)
(* parsing and regular-expression extraction are computed from the        *)
(* characters.  A cell of an attribute column is a record                 *)
(*     [k |-> kind, n |-> number, s |-> text]                              *)
(* with kind "null" (None/NaN/NaT), "num" (a number of a numeric column), *)
(* "text" (a string of an object column) or "ts" (a timestamp of a        *)
(* datetime column, n its year).  A column name is a record               *)
(*     [base |-> the name in lower case, casing |-> how it is written]    *)
(* so that str.lower() is a function that is not the identity.            *)
(***************************************************************************)
EXTENDS Integers, Sequences, FiniteSets, TLC

(***************************************************************************)
(* Bounds of the model.                                                    *)
(***************************************************************************)
MaxRows == 3
MaxOverlays == 3
MaxCols == 2
MaxPasses == 2

(***************************************************************************)
(* Sequence helpers.                                                       *)
(***************************************************************************)
Range(f) == {f[i] : i \in DOMAIN f}

SeqsUpTo(S, n) == UNION {[1..k -> S] : k \in 1..n}

\* The sequences of 1..n distinct elements of S.
DistinctSeqsUpTo(S, n) ==
    {s \in SeqsUpTo(S, n) : \A i, j \in DOMAIN s : i # j => s[i] # s[j]}

(***************************************************************************)
(* Text.                                                                   *)
(***************************************************************************)
Digits == {"0", "1", "2", "3", "4", "5", "6", "7", "8", "9"}

DigitVal(c) ==
    CASE c = "0" -> 0 [] c = "1" -> 1 [] c = "2" -> 2 [] c = "3" -> 3
      [] c = "4" -> 4 [] c = "5" -> 5 [] c = "6" -> 6 [] c = "7" -> 7
      [] c = "8" -> 8 [] c = "9" -> 9

DigitChar(d) == <<"0", "1", "2", "3", "4", "5", "6", "7", "8", "9">>[d + 1]

AllDigits(s) == Len(s) > 0 /\ \A i \in DOMAIN s : s[i] \in Digits

\* int(s) for a text s of decimal digits.
RECURSIVE DigitsToInt(_)
DigitsToInt(s) ==
    IF s = <<>> THEN 0
    ELSE 10 * DigitsToInt(SubSeq(s, 1, Len(s) - 1)) + DigitVal(s[Len(s)])

\* str(n) for an integer n >= 0.
RECURSIVE IntToDigits(_)
IntToDigits(n) ==
    IF n < 10 THEN <<DigitChar(n)>>
    ELSE Append(IntToDigits(n \div 10), DigitChar(n % 10))

(***************************************************************************)
(* Cells and columns.                                                      *)
(***************************************************************************)
Null == [k |-> "null", n |-> 0, s |-> <<>>]
Num(x) == [k |-> "num", n |-> x, s |-> <<>>]
Text(t) == [k |-> "text", n |-> 0, s |-> t]
Stamp(y) == [k |-> "ts", n |-> y, s |-> <<>>]

\* An undefined number (NaN) and a defined one, as pandas' float series hold them.
NaN == [def |-> FALSE, v |-> 0]
Val(x) == [def |-> TRUE, v |-> x]

\* The dtype pandas gives a column holding these cells: datetime64 when it
\* holds timestamps, object when it holds strings, int64 for numbers without
\* a missing value and float64 for numbers with one.
DType(cells) ==
    IF \E i \in DOMAIN cells : cells[i].k = "ts" THEN "datetime"
    ELSE IF \E i \in DOMAIN cells : cells[i].k = "text" THEN "object"
    ELSE IF \E i \in DOMAIN cells : cells[i].k = "null" THEN "float"
    ELSE "int"

\* Series.astype(str) of one cell of a column of dtype dt: a float prints
\* with its ".0", a missing value as "nan" (float, datetime: "NaT") or "None".
AsStr(c, dt) ==
    CASE c.k = "text" -> c.s
      [] c.k = "num" ->
            IF dt = "float" THEN IntToDigits(c.n) \o <<".", "0">>
            ELSE IntToDigits(c.n)
      [] c.k = "ts" -> IntToDigits(c.n) \o <<"-", "0", "1", "-", "0", "1">>
      [] OTHER ->
            IF dt = "object" THEN <<"N", "o", "n", "e">>
            ELSE IF dt = "datetime" THEN <<"N", "a", "T">>
            ELSE <<"n", "a", "n">>

\* pd.to_numeric(errors="coerce") of one cell: a number is itself, a text of
\* decimal digits is its value, anything else is NaN.
ToNumeric(c) ==
    CASE c.k = "num" -> Val(c.n)
      [] c.k = "text" -> IF AllDigits(c.s) THEN Val(DigitsToInt(c.s)) ELSE NaN
      [] OTHER -> NaN

(***************************************************************************)
(* pd.to_datetime(s, errors="coerce", utc=True).dt.year, per cell.         *)
(*                                                                         *)
(* A number is read as nanoseconds since 1970-01-01 (the default unit), so *)
(* every number of the model (below 2^31: about two seconds) lies in 1970  *)
(* and every negative one in 1969.  A text                                 *)
(* is parsed: "YYYY-MM-DD", "YYYY" and "YYYYMMDD" with a valid month and    *)
(* day and a year inside the datetime64[ns] range are dates; any other     *)
(* text (letters, a number below 1000, an 8-digit number with an invalid   *)
(* month) is NaT.                                                          *)
(***************************************************************************)
\* datetime64[ns] holds 1677-09-21 .. 2262-04-11: the whole years 1678..2261.
ValidYMD(y, m, d) ==
    /\ y >= 1678 /\ y <= 2261
    /\ m >= 1 /\ m <= 12
    /\ d >= 1 /\ d <= 31

ParseDateYear(s) ==
    IF /\ Len(s) = 10
       /\ AllDigits(SubSeq(s, 1, 4)) /\ s[5] = "-"
       /\ AllDigits(SubSeq(s, 6, 7)) /\ s[8] = "-"
       /\ AllDigits(SubSeq(s, 9, 10))
       /\ ValidYMD(DigitsToInt(SubSeq(s, 1, 4)), DigitsToInt(SubSeq(s, 6, 7)),
                   DigitsToInt(SubSeq(s, 9, 10)))
    THEN Val(DigitsToInt(SubSeq(s, 1, 4)))
    ELSE IF Len(s) = 4 /\ AllDigits(s) /\ ValidYMD(DigitsToInt(s), 1, 1)
    THEN Val(DigitsToInt(s))
    ELSE IF /\ Len(s) = 8 /\ AllDigits(s)
            /\ ValidYMD(DigitsToInt(SubSeq(s, 1, 4)), DigitsToInt(SubSeq(s, 5, 6)),
                        DigitsToInt(SubSeq(s, 7, 8)))
    THEN Val(DigitsToInt(SubSeq(s, 1, 4)))
    ELSE NaN

ToDatetimeYear(c) ==
    CASE c.k = "ts" -> Val(c.n)
      [] c.k = "num" -> IF c.n >= 0 THEN Val(1970) ELSE Val(1969)
      [] c.k = "text" -> ParseDateYear(c.s)
      [] OTHER -> NaN

\* s.str.extract(r"(\d{4})")[0] then pd.to_numeric: the first four
\* consecutive digits of the text, as a number.
RegexYear(s) ==
    LET starts == {i \in 1..(Len(s) - 3) : AllDigits(SubSeq(s, i, i + 3))}
    IN  IF starts = {} THEN NaN
        ELSE LET i == CHOOSE j \in starts : \A k \in starts : j <= k
             IN  Val(DigitsToInt(SubSeq(s, i, i + 3)))

(***************************************************************************)
(* get_year_series (app.py): the derived year of every cell of a column.   *)
(* Every test (datetime dtype, any parsed date, any number, the share of   *)
(* numbers above 3000) is taken over the whole column it is given.         *)
(***************************************************************************)
YearThreshold == 3000

\* The test decided for each record on its own value.
AboveThresholdPerRecord(cells, i) ==
    ToNumeric(cells[i]).def /\ ToNumeric(cells[i]).v > YearThreshold

\* (s_num > 3000).mean() > 0.5, over all cells (NaN > 3000 is False): the
\* same answer for every record i of the column.
MostlyAboveThreshold(cells, i) ==
    2 * Cardinality({j \in DOMAIN cells :
                        ToNumeric(cells[j]).def /\ ToNumeric(cells[j]).v > YearThreshold})
        > Len(cells)

get_year_series(cells) ==
    LET dt == DType(cells)
        parsed == [i \in DOMAIN cells |-> ToDatetimeYear(cells[i])]
        nums == [i \in DOMAIN cells |-> ToNumeric(cells[i])]
        rx == [i \in DOMAIN cells |-> RegexYear(AsStr(cells[i], dt))]
    IN  IF dt = "datetime" THEN parsed
        ELSE IF \E i \in DOMAIN cells : parsed[i].def THEN parsed
        ELSE IF \E i \in DOMAIN cells : nums[i].def
        THEN [i \in DOMAIN cells |->
                IF MostlyAboveThreshold(cells, i) THEN rx[i] ELSE nums[i]]
        ELSE rx

(***************************************************************************)
(* Column names and the Column Role Detector (utils.py).                   *)
(***************************************************************************)
Name(b, c) == [base |-> b, casing |-> c]
L(b) == Name(b, "lower")

\* str.lower()
Lower(name) == [base |-> name.base, casing |-> "lower"]

GeomCol == L("geometry")
\* Python's None, and the selectbox option "-- None --".
NoneCol == Name("", "None")
NoneLabel == Name("-- None --", "label")

Roles == {"precision", "country", "sector", "year", "value"}

PRECISION_COLS ==
    <<L("geo_precision"), L("geographic_precision"), L("precision"),
      L("location_precision")>>
COUNTRY_COLS ==
    <<L("country"), L("recipient_country"), L("iso3"), L("country_name")>>
SECTOR_COLS == <<L("sector"), L("broad_sector_name"), L("sector_name")>>
YEAR_COLS == <<L("year"), L("commitment_year"), L("start_year")>>
VALUE_COLS ==
    <<L("project_value_usd"), L("usd_commitment"), L("commitment_amount_usd"),
      L("value_usd_2021_const")>>

Candidates(role) ==
    CASE role = "precision" -> PRECISION_COLS
      [] role = "country" -> COUNTRY_COLS
      [] role = "sector" -> SECTOR_COLS
      [] role = "year" -> YEAR_COLS
      [] role = "value" -> VALUE_COLS

\* lower_map = {c.lower(): c for c in gdf.columns}: of two columns with the
\* same lower-case name the later one stays in the dict.
LowerMapKeys(columns) == {Lower(columns[i]) : i \in DOMAIN columns}

LowerMapGet(columns, key) ==
    LET hits == {i \in DOMAIN columns : Lower(columns[i]) = key}
    IN  columns[CHOOSE i \in hits : \A j \in hits : j <= i]

\* A detector that compares the candidate with the column names as written.
pick_case_sensitive(columns, candidates) ==
    LET present == {i \in DOMAIN candidates : candidates[i] \in Range(columns)}
    IN  IF present = {} THEN NoneCol
        ELSE candidates[CHOOSE i \in present : \A j \in present : i <= j]

\* pick(candidates): the column of the first candidate found in lower_map.
pick(columns, candidates) ==
    LET present == {i \in DOMAIN candidates :
                        candidates[i] \in LowerMapKeys(columns)}
    IN  IF present = {} THEN NoneCol
        ELSE LowerMapGet(columns,
                 candidates[CHOOSE i \in present : \A j \in present : i <= j])

detect_columns(columns) == [r \in Roles |-> pick(columns, Candidates(r))]

(***************************************************************************)
(* Frames.  A frame (GeoDataFrame) is [columns, rows, crs]: columns is the *)
(* sequence of attribute column names followed by the geometry column, a   *)
(* row is [idx, vals, geom] with idx its index label, vals its cells in    *)
(* column order and geom = [t |-> geometry type, simp |-> simplified].     *)
(***************************************************************************)
ColIndex(columns, name) == CHOOSE i \in DOMAIN columns : columns[i] = name

\* frame[name]: the cells of a column, in row order.
Column(frame, name) ==
    [i \in DOMAIN frame.rows |-> frame.rows[i].vals[ColIndex(frame.columns, name)]]

\* frame[mask]: the rows whose position is in keep, in order.
RECURSIVE KeepRows(_, _, _)
KeepRows(rows, keep, i) ==
    IF i > Len(rows) THEN <<>>
    ELSE (IF i \in keep THEN <<rows[i]>> ELSE <<>>) \o KeepRows(rows, keep, i + 1)

Mask(frame, keep) == [frame EXCEPT !.rows = KeepRows(frame.rows, keep, 1)]

Ids(frame) == {frame.rows[i].idx : i \in DOMAIN frame.rows}

\* sorted(frame[name].dropna().astype(str).unique()): a widget's options.
Options(frame, name) ==
    LET cells == Column(frame, name)
    IN  {AsStr(cells[i], DType(cells)) : i \in {j \in DOMAIN cells : cells[j].k # "null"}}

\* frame[frame[name].astype(str).isin(chosen)]
IsinFilter(frame, name, chosen) ==
    LET cells == Column(frame, name)
    IN  Mask(frame, {i \in DOMAIN cells : AsStr(cells[i], DType(cells)) \in chosen})

(***************************************************************************)
(* Value Bucketizer: Series.quantile (linear interpolation) and bucket().  *)
(* Breakpoints are kept as hundredths (q * 100), which is exact for 0.33   *)
(* and 0.66 over integer values.                                           *)
(***************************************************************************)
Defined(nums) == {i \in DOMAIN nums : nums[i].def}

\* The k-th smallest (k = 1..n) of the defined values.
KthSmallest(nums, k) ==
    LET D == Defined(nums)
    IN  CHOOSE x \in {nums[i].v : i \in D} :
            /\ Cardinality({i \in D : nums[i].v < x}) < k
            /\ Cardinality({i \in D : nums[i].v <= x}) >= k

\* 100 * nums.quantile(pct / 100): NaN values are skipped; NaN when none is left.
Quantile100(nums, pct) ==
    LET n == Cardinality(Defined(nums))
        pos == (n - 1) * pct
        lo == pos \div 100
        frac == pos % 100
    IN  IF n = 0 THEN NaN
        ELSE IF frac = 0 THEN Val(100 * KthSmallest(nums, lo + 1))
        ELSE Val(100 * KthSmallest(nums, lo + 1)
                 + frac * (KthSmallest(nums, lo + 2) - KthSmallest(nums, lo + 1)))

\* A comparison with NaN is False.
LeQ(v, q100) == q100.def /\ 100 * v <= q100.v

\* bucket() with strict comparisons at the breakpoints.
bucket_strict(v, q1, q2) ==
    IF ~v.def THEN "None"
    ELSE IF q1.def /\ 100 * v.v < q1.v THEN "Low"
    ELSE IF q2.def /\ 100 * v.v < q2.v THEN "Medium"
    ELSE "High"

bucket(v, q1, q2) ==
    IF ~v.def THEN "None"
    ELSE IF LeQ(v.v, q1) THEN "Low"
    ELSE IF LeQ(v.v, q2) THEN "Medium"
    ELSE "High"

(***************************************************************************)
(* Coordinate Normalizer, Geometry Simplifier, JSON Sanitizer (utils.py,   *)
(* app.py).                                                                *)
(***************************************************************************)
\* to_wgs84: no crs -> set_crs(4326); already 4326 -> unchanged; any other
\* known crs -> to_crs(4326).  An unknown crs makes to_crs raise.
ToWgs84Raises(frame) == frame.crs = "bad"

to_wgs84(frame) == [frame EXCEPT !.crs = "wgs84"]

\* simplify_geometries: the frame itself when empty, else a copy whose
\* non-null geometries are simplified.
simplify_geometries(frame) ==
    IF frame.rows = <<>> THEN frame
    ELSE [frame EXCEPT !.rows =
            [i \in DOMAIN frame.rows |->
                IF frame.rows[i].geom.t = "null" THEN frame.rows[i]
                ELSE [frame.rows[i] EXCEPT !.geom.simp = TRUE]]]

\* sanitize_for_json: a copy in which every timestamp is its ISO text.
sanitize_for_json(frame) ==
    [frame EXCEPT !.rows =
        [i \in DOMAIN frame.rows |->
            [frame.rows[i] EXCEPT !.vals =
                [j \in DOMAIN frame.rows[i].vals |->
                    IF frame.rows[i].vals[j].k = "ts"
                    THEN Text(AsStr(frame.rows[i].vals[j], "datetime"))
                    ELSE frame.rows[i].vals[j]]]]]

(***************************************************************************)
(* Filter Engine (app.py, "Apply filters").                                *)
(* cols maps each role to a column name or NoneCol; sel holds the chosen   *)
(* countries, sectors, precisions and buckets (sets) and the year range.   *)
(***************************************************************************)
NoRange == [on |-> FALSE, lo |-> 0, hi |-> 0]
YearRange(a, b) == [on |-> TRUE, lo |-> a, hi |-> b]

Buckets == {"Low", "Medium", "High"}

\* A membership step that lets every row through.
MemberStepSkipped(frame, col, chosen) == frame

\* if chosen and cols[role]: filtered = filtered[filtered[col].astype(str).isin(chosen)]
MemberStep(frame, col, chosen) ==
    IF chosen # {} /\ col # NoneCol THEN IsinFilter(frame, col, chosen) ELSE frame

\* if year_range and cols["year"]: the years are derived from the rows that
\* are left, and a row with no year fails both comparisons.
YearStep(frame, col, yr) ==
    IF yr.on /\ col # NoneCol
    THEN LET yy == get_year_series(Column(frame, col))
         IN  Mask(frame, {i \in DOMAIN yy :
                            yy[i].def /\ yy[i].v >= yr.lo /\ yy[i].v <= yr.hi})
    ELSE frame

\* The four steps that come before the bucket step.
BeforeBucket(frame, cols, sel) ==
    MemberStep(
        YearStep(
            MemberStep(
                MemberStep(frame, cols["country"], sel.countries),
                cols["sector"], sel.sectors),
            cols["year"], sel.year),
        cols["precision"], sel.prec)

\* The frame whose values give the breakpoints, taken to be the loaded frame.
BreakpointFrameLoaded(loaded, current) == loaded

\* vs = pd.to_numeric(filtered[cols["value"]]): the breakpoints come from
\* the frame as filtered so far.
BreakpointFrame(loaded, current) == current

NumericColumn(frame, col) ==
    LET cells == Column(frame, col)
    IN  [i \in DOMAIN cells |-> ToNumeric(cells[i])]

BucketActive(cols, sel) == sel.buckets # {} /\ cols["value"] # NoneCol

\* The bucket step: [q1, q2, b, frame] with b the label of every row of the
\* frame it is given and frame the rows whose label is chosen.
BucketStep(loaded, frame, cols, sel) ==
    IF BucketActive(cols, sel)
    THEN LET vs == NumericColumn(frame, cols["value"])
             base == NumericColumn(BreakpointFrame(loaded, frame), cols["value"])
             q1 == Quantile100(base, 33)
             q2 == Quantile100(base, 66)
             b == [i \in DOMAIN vs |-> bucket(vs[i], q1, q2)]
         IN  [q1 |-> q1, q2 |-> q2,
              b |-> [i \in DOMAIN vs |-> [idx |-> frame.rows[i].idx, label |-> b[i]]],
              frame |-> Mask(frame, {i \in DOMAIN vs : b[i] \in sel.buckets})]
    ELSE [q1 |-> NaN, q2 |-> NaN, b |-> <<>>, frame |-> frame]

\* filtered = gdf.copy() ... if simplify: filtered = simplify_geometries(...)
apply_filters(loaded, cols, sel, simp) ==
    LET r == BucketStep(loaded, BeforeBucket(loaded, cols, sel), cols, sel)
    IN  [r EXCEPT !.frame = IF simp THEN simplify_geometries(r.frame) ELSE r.frame]

(***************************************************************************)
(* Geometry Partitioner (app.py): filtered[geom_type.isin([...])].          *)
(* geom_type is None for a null geometry; GeoPandas also reads geometries  *)
(* of type GeometryCollection from GeoJSON and GeoPackage files.           *)
(***************************************************************************)
GeomTypes ==
    {"Point", "MultiPoint", "LineString", "MultiLineString", "Polygon",
     "MultiPolygon", "GeometryCollection"}

PointTypes == {"Point", "MultiPoint"}
LineTypes == {"LineString", "MultiLineString"}
PolygonTypes == {"Polygon", "MultiPolygon"}

Partition(frame, types) ==
    Mask(frame, {i \in DOMAIN frame.rows : frame.rows[i].geom.t \in types})

(***************************************************************************)
(* Overlays (app.py): one pass of the for loop per selected file.  A file  *)
(* is [name, suffix, outcome]: what reading and reprojecting it does.      *)
(***************************************************************************)
OverlayOutcomes == {"ok", "read_error", "empty", "reproj_error"}
OverlaySuffixes == {".geojson", ".json", ".shp", ".gpkg"}

\* A layer of the map: a main layer by its name, an overlay by its file.
MainLayerNamed(name) == [kind |-> "main", name |-> name, file |-> 0]
OverlayLayer(file) == [kind |-> "overlay", name |-> "Overlay", file |-> file]

\* The loop body: what one file adds to [layers, added, toasts].
OverlayBody(acc, f) ==
    IF f.suffix \notin OverlaySuffixes
    THEN [acc EXCEPT !.toasts = Append(@, [file |-> f.name, kind |-> "unsupported"])]
    ELSE IF f.outcome = "read_error"
    THEN [acc EXCEPT !.toasts = Append(@, [file |-> f.name, kind |-> "failed"])]
    ELSE IF f.outcome = "empty"
    THEN [acc EXCEPT !.toasts = Append(@, [file |-> f.name, kind |-> "no features"])]
    ELSE IF f.outcome = "reproj_error"
    THEN [acc EXCEPT !.toasts = Append(@, [file |-> f.name, kind |-> "failed"])]
    ELSE [acc EXCEPT !.layers = Append(@, OverlayLayer(f.name)),
                     !.added = @ + 1]

\* A loop that an exception leaves: nothing after the first failure is read.
RECURSIVE OverlayLoopAborting(_, _)
OverlayLoopAborting(acc, files) ==
    IF files = <<>> THEN acc
    ELSE IF Head(files).outcome \in {"read_error", "reproj_error"}
    THEN OverlayBody(acc, Head(files))
    ELSE OverlayLoopAborting(OverlayBody(acc, Head(files)), Tail(files))

\* for ofile in selected_overlays: try ... except Exception: st.toast(...)
RECURSIVE OverlayLoop(_, _)
OverlayLoop(acc, files) ==
    IF files = <<>> THEN acc
    ELSE OverlayLoop(OverlayBody(acc, Head(files)), Tail(files))

(***************************************************************************)
(* The state of one session.                                               *)
(***************************************************************************)
VARIABLES
    pc,                 \* the section of app.py the pass is about to run
    passes,             \* the number of the pass, the first being 1
    source,             \* the selected data source on disk: [status, frame]
    cache,              \* st.cache_data's entry for load_data: [hit, frame]
    disk_overlays,      \* the files of ./overlays (overlay_candidates)
    checkbox,           \* the state of the "Simplify geometries" checkbox widget
    simplify,           \* simplify, as the sidebar read it from the checkbox
    selected_overlays,  \* the overlay multiselect
    gdf,                \* the loaded Record Set
    msgs,               \* st.error / st.warning / st.info messages shown
    auto_cols,          \* detect_columns(gdf)
    picked,             \* what the user chose in the five column selectboxes
    cols,               \* the Role Bindings in use
    sel,                \* the Filter Selection
    filtered,           \* the filtered (and simplified) Record Set
    q,                  \* the bucket breakpoints of this pass, [q1, q2] * 100
    b,                  \* the bucket label of every row the bucket step saw
    y_try,              \* the derived years of the diagnostics panel
    pts, lines, polys,  \* the three partitions
    layers,             \* the layers added to the folium map
    added_overlays,     \* the counter of the overlay loop
    toasts,             \* st.toast warnings
    shown,              \* whether st_folium drew the map
    exported            \* the frame offered for download

vars ==
    <<pc, passes, source, cache, disk_overlays, checkbox, simplify, selected_overlays, gdf, msgs,
      auto_cols, picked, cols, sel, filtered, q, b, y_try, pts, lines, polys,
      layers, added_overlays, toasts, shown, exported>>

EmptyFrame == [columns |-> <<GeomCol>>, rows |-> <<>>, crs |-> "none"]
NoCache == [hit |-> FALSE, frame |-> EmptyFrame]
Cached(frame) == [hit |-> TRUE, frame |-> frame]
Msg(level, text, reason) == [level |-> level, text |-> text, reason |-> reason]
NoCols == [r \in Roles |-> NoneCol]
NoSel == [countries |-> {}, sectors |-> {}, prec |-> {}, buckets |-> {}, year |-> NoRange]
NoQ == [q1 |-> NaN, q2 |-> NaN]

\* The selectbox option of a user who leaves the box as preselected.
Keep == Name("", "untouched")
KeepAll == [r \in Roles |-> Keep]

\* What a multiselect over the options s returns: the chosen options, each
\* once, in the order the user chose them.
Selections(s) == {<<>>} \cup DistinctSeqsUpTo(Range(s), Len(s))

\* The state before the first section runs, for a source, overlay files and
\* a checkbox state (True when the user has not touched it).
Start(src, ovl, box) ==
    /\ pc = "sidebar"
    /\ passes = 1
    /\ source = src
    /\ cache = NoCache
    /\ disk_overlays = ovl
    /\ checkbox = box
    /\ simplify = TRUE
    /\ selected_overlays = <<>>
    /\ gdf = EmptyFrame
    /\ msgs = <<>>
    /\ auto_cols = NoCols
    /\ picked = KeepAll
    /\ cols = NoCols
    /\ sel = NoSel
    /\ filtered = EmptyFrame
    /\ q = NoQ
    /\ b = <<>>
    /\ y_try = <<>>
    /\ pts = EmptyFrame
    /\ lines = EmptyFrame
    /\ polys = EmptyFrame
    /\ layers = <<>>
    /\ added_overlays = 0
    /\ toasts = <<>>
    /\ shown = FALSE
    /\ exported = EmptyFrame

(***************************************************************************)
(* The sections of the script, in order.                                   *)
(***************************************************************************)
\* Sidebar: map settings and the overlay multiselect.
Sidebar ==
    /\ pc = "sidebar"
    /\ simplify' = checkbox
    /\ \E o \in Selections(disk_overlays) : selected_overlays' = o
    /\ pc' = "load"
    /\ UNCHANGED <<passes, source, cache, disk_overlays, checkbox, gdf, msgs, auto_cols, picked, cols,
                   sel, filtered, q, b, y_try, pts, lines, polys, layers,
                   added_overlays, toasts, shown, exported>>

\* read_geopackage / read_geojson_folder up to their to_wgs84 call, by what
\* is on disk: the exception raised ("" when none) and the frame read.
\*   missing       path.exists() is False: FileNotFoundError
\*   no_layers     the GeoPackage lists no layer: the RuntimeError is caught
\*                 and the fallback gpd.read_file raises in its turn
\*   no_files      the folder holds no .geojson file: FileNotFoundError
\*   unreadable    no file of the folder could be read: RuntimeError
\*   some_skipped  some files of the folder could not be read and were
\*                 skipped: the frame is the merge of the others
\*   ok            the frame is the first non-empty layer, or the merge
ReadFailures == {"missing", "no_layers", "no_files", "unreadable"}

read_source(src) ==
    IF src.status \in ReadFailures
    THEN [raised |-> src.status, frame |-> EmptyFrame]
    ELSE IF ToWgs84Raises(src.frame)
    THEN [raised |-> "projection", frame |-> EmptyFrame]
    ELSE [raised |-> "", frame |-> to_wgs84(src.frame)]

\* A load that keeps the frame as read when it cannot be reprojected.
load_data_unprojected(src) ==
    IF src.status \in ReadFailures
    THEN [raised |-> src.status, frame |-> EmptyFrame]
    ELSE [raised |-> "", frame |-> src.frame]

\* load_data without its cache: the reader, then to_wgs84 once more.
load_data(src) ==
    LET r == read_source(src)
    IN  IF r.raised # "" THEN r ELSE [r EXCEPT !.frame = to_wgs84(r.frame)]

\* Load data.  No GeoPackage to select: a warning and st.stop().  load_data
\* returns its cached value when it has one; when it raises, st.error shows
\* the exception and st.stop() ends the pass; nothing is cached then.  An
\* empty dataset stops the pass too.
Load ==
    /\ pc = "load"
    /\ IF source.status = "none_selected"
       THEN /\ msgs' = Append(msgs, Msg("warning", "No GeoPackage selected", "none_selected"))
            /\ pc' = "stopped"
            /\ UNCHANGED <<gdf, cache>>
       ELSE IF ~cache.hit /\ load_data(source).raised # ""
       THEN /\ msgs' = Append(msgs, Msg("error", "Load a dataset to begin",
                                        load_data(source).raised))
            /\ pc' = "stopped"
            /\ UNCHANGED <<gdf, cache>>
       ELSE /\ gdf' = IF cache.hit THEN cache.frame ELSE load_data(source).frame
            /\ cache' = Cached(gdf')
            /\ IF gdf'.rows = <<>>
               THEN /\ msgs' = Append(msgs, Msg("warning", "Loaded dataset is empty", "empty"))
                    /\ pc' = "stopped"
               ELSE /\ msgs' = msgs
                    /\ pc' = "detect"
    /\ UNCHANGED <<passes, source, disk_overlays, checkbox, simplify, selected_overlays, auto_cols,
                   picked, cols, sel, filtered, q, b, y_try, pts, lines, polys,
                   layers, added_overlays, toasts, shown, exported>>

\* auto_cols = detect_columns(gdf) or {}
DetectColumns ==
    /\ pc = "detect"
    /\ auto_cols' = detect_columns(gdf.columns)
    /\ pc' = "columns"
    /\ UNCHANGED <<passes, source, cache, disk_overlays, checkbox, simplify, selected_overlays, gdf, msgs,
                   picked, cols, sel, filtered, q, b, y_try, pts, lines, polys,
                   layers, added_overlays, toasts, shown, exported>>

\* all_cols = ["-- None --"] + [c for c in gdf.columns if c != "geometry"]
all_cols(frame) == {NoneLabel} \cup {c \in Range(frame.columns) : c # GeomCol}

\* preselect(name): the detected column if it is one of the frame's.
preselect(frame, auto, role) ==
    IF auto[role] # NoneCol /\ auto[role] \in Range(frame.columns)
    THEN auto[role] ELSE NoneLabel

\* Bindings that keep the detected column whatever the user selects.
bindings_auto_only(frame, auto, choice) ==
    [r \in Roles |->
        IF preselect(frame, auto, r) = NoneLabel THEN NoneCol
        ELSE preselect(frame, auto, r)]

\* The five selectboxes and cols = {...}: the selected option, "-- None --"
\* normalised to None.
bindings(frame, auto, choice) ==
    [r \in Roles |->
        LET v == IF choice[r] = Keep THEN preselect(frame, auto, r) ELSE choice[r]
        IN  IF v = NoneLabel THEN NoneCol ELSE v]

SelectColumns(choice) ==
    /\ pc = "columns"
    /\ picked' = choice
    /\ cols' = bindings(gdf, auto_cols, choice)
    /\ pc' = "widgets"
    /\ UNCHANGED <<passes, source, cache, disk_overlays, checkbox, simplify, selected_overlays, gdf, msgs,
                   auto_cols, sel, filtered, q, b, y_try, pts, lines, polys,
                   layers, added_overlays, toasts, shown, exported>>

\* The choices of a user who changes at most one of the five selectboxes.
OneOverride(frame) ==
    {KeepAll} \cup
    {[KeepAll EXCEPT ![r] = o] : r \in Roles, o \in all_cols(frame)}

\* The options of a multiselect bound to a role, [] when the role is unbound.
RoleOptions(frame, c, role) ==
    IF c[role] # NoneCol /\ c[role] \in Range(frame.columns)
    THEN Options(frame, c[role]) ELSE {}

\* y_all = get_year_series(gdf[cols["year"]]).dropna().astype(int)
YAll(frame, c) ==
    IF c["year"] # NoneCol /\ c["year"] \in Range(frame.columns)
    THEN LET yy == get_year_series(Column(frame, c["year"]))
         IN  {yy[i].v : i \in {j \in DOMAIN yy : yy[j].def}}
    ELSE {}

YearMin(ys) == CHOOSE y \in ys : \A z \in ys : y <= z
YearMax(ys) == CHOOSE y \in ys : \A z \in ys : y >= z

\* The slider's value when the user leaves it alone: (yr_min, yr_max).
DefaultYearRange(frame, c) ==
    IF YAll(frame, c) = {} THEN NoRange
    ELSE YearRange(YearMin(YAll(frame, c)), YearMax(YAll(frame, c)))

\* The intervals the slider can return, up to the years that occur.
YearRanges(frame, c) ==
    IF YAll(frame, c) = {} THEN {NoRange}
    ELSE {r \in {YearRange(lo, hi) : lo \in YAll(frame, c), hi \in YAll(frame, c)} :
            r.lo <= r.hi}

\* Filters sidebar: every widget returns what the user chose among its options.
FilterWidgets ==
    /\ pc = "widgets"
    /\ \E cs \in SUBSET RoleOptions(gdf, cols, "country"),
          ss \in SUBSET RoleOptions(gdf, cols, "sector"),
          yr \in YearRanges(gdf, cols),
          ps \in SUBSET RoleOptions(gdf, cols, "precision"),
          bs \in (IF cols["value"] # NoneCol THEN SUBSET Buckets ELSE {{}}) :
            sel' = [countries |-> cs, sectors |-> ss, prec |-> ps,
                    buckets |-> bs, year |-> yr]
    /\ msgs' = IF cols["year"] # NoneCol /\ YAll(gdf, cols) = {}
               THEN Append(msgs, Msg("info", "no usable year range", ""))
               ELSE msgs
    /\ pc' = "filter"
    /\ UNCHANGED <<passes, source, cache, disk_overlays, checkbox, simplify, selected_overlays, gdf,
                   auto_cols, picked, cols, filtered, q, b, y_try, pts, lines,
                   polys, layers, added_overlays, toasts, shown, exported>>

\* The steps applied to gdf itself instead of to a copy.
filters_rebind_loaded(loaded, result) == result

\* filtered = gdf.copy(), and every step binds filtered to a new frame:
\* what gdf holds after the section.
loaded_after_filters(loaded, result) == loaded

\* gdf = gdf_in.copy(): what the argument of sanitize_for_json holds after
\* the call.
sanitize_argument(frame) == frame

\* Apply filters, then simplify.
ApplyFilters ==
    /\ pc = "filter"
    /\ LET r == apply_filters(gdf, cols, sel, simplify)
       IN  /\ filtered' = r.frame
           /\ gdf' = loaded_after_filters(gdf, r.frame)
           /\ q' = [q1 |-> r.q1, q2 |-> r.q2]
           /\ b' = r.b
    /\ pc' = "diagnostics"
    /\ UNCHANGED <<passes, source, cache, disk_overlays, checkbox, simplify, selected_overlays, msgs,
                   auto_cols, picked, cols, sel, y_try, pts, lines, polys,
                   layers, added_overlays, toasts, shown, exported>>

\* Data diagnostics: y_try = get_year_series(gdf[cols["year"]])
Diagnostics ==
    /\ pc = "diagnostics"
    /\ y_try' = IF cols["year"] # NoneCol /\ cols["year"] \in Range(gdf.columns)
                THEN get_year_series(Column(gdf, cols["year"]))
                ELSE <<>>
    /\ pc' = "render"
    /\ UNCHANGED <<passes, source, cache, disk_overlays, checkbox, simplify, selected_overlays, gdf, msgs,
                   auto_cols, picked, cols, sel, filtered, q, b, pts, lines,
                   polys, layers, added_overlays, toasts, shown, exported>>

MainLayer(name, part) ==
    IF part.rows # <<>> THEN <<MainLayerNamed(name)>> ELSE <<>>

\* Map rendering: the three partitions, sanitized, each a layer when not empty.
RenderMain ==
    /\ pc = "render"
    /\ pts' = sanitize_for_json(Partition(filtered, PointTypes))
    /\ lines' = sanitize_for_json(Partition(filtered, LineTypes))
    /\ polys' = sanitize_for_json(Partition(filtered, PolygonTypes))
    /\ layers' = MainLayer("Projects (points)", pts')
                   \o MainLayer("Projects (lines)", lines')
                   \o MainLayer("Projects (polygons)", polys')
    /\ pc' = "overlays"
    /\ UNCHANGED <<passes, source, cache, disk_overlays, checkbox, simplify, selected_overlays, gdf, msgs,
                   auto_cols, picked, cols, sel, filtered, q, b, y_try,
                   added_overlays, toasts, shown, exported>>

\* Overlays: added_overlays = 0, then the loop over the selected files.
Overlays ==
    /\ pc = "overlays"
    /\ LET r == OverlayLoop([layers |-> layers, added |-> 0, toasts |-> toasts],
                            selected_overlays)
       IN  /\ layers' = r.layers
           /\ added_overlays' = r.added
           /\ toasts' = r.toasts
    /\ pc' = "finish"
    /\ UNCHANGED <<passes, source, cache, disk_overlays, checkbox, simplify, selected_overlays, gdf, msgs,
                   auto_cols, picked, cols, sel, filtered, q, b, y_try, pts,
                   lines, polys, shown, exported>>

\* LayerControl, st_folium, the "none were added" warning, summary, export.
Finish ==
    /\ pc = "finish"
    /\ shown' = TRUE
    /\ msgs' = IF selected_overlays # <<>> /\ added_overlays = 0
               THEN Append(msgs, Msg("warning", "no overlay was added", ""))
               ELSE msgs
    /\ exported' = sanitize_for_json(filtered)
    /\ filtered' = sanitize_argument(filtered)
    /\ pc' = "done"
    /\ UNCHANGED <<passes, source, cache, disk_overlays, checkbox, simplify, selected_overlays, gdf,
                   auto_cols, picked, cols, sel, q, b, y_try, pts,
                   lines, polys, layers, added_overlays, toasts>>

\* An interaction after the script has ended (or stopped): Streamlit runs it
\* again from the top.  The script's variables are built anew; the cache of
\* load_data and what is on disk stay; the user may have toggled the
\* simplify checkbox.
Rerun ==
    /\ pc \in {"done", "stopped"}
    /\ passes < MaxPasses
    /\ passes' = passes + 1
    /\ pc' = "sidebar"
    /\ \E box \in BOOLEAN : checkbox' = box
    /\ simplify' = TRUE
    /\ selected_overlays' = <<>>
    /\ gdf' = EmptyFrame
    /\ msgs' = <<>>
    /\ auto_cols' = NoCols
    /\ picked' = KeepAll
    /\ cols' = NoCols
    /\ sel' = NoSel
    /\ filtered' = EmptyFrame
    /\ q' = NoQ
    /\ b' = <<>>
    /\ y_try' = <<>>
    /\ pts' = EmptyFrame
    /\ lines' = EmptyFrame
    /\ polys' = EmptyFrame
    /\ layers' = <<>>
    /\ added_overlays' = 0
    /\ toasts' = <<>>
    /\ shown' = FALSE
    /\ exported' = EmptyFrame
    /\ UNCHANGED <<source, cache, disk_overlays>>

(***************************************************************************)
(* The data sources the specifications start from.                         *)
(***************************************************************************)
Pt == [t |-> "Point", simp |-> FALSE]
Geom(t) == [t |-> t, simp |-> FALSE]

\* A frame as read_file returns it: the rows numbered 0, 1, 2, ...
MakeFrame(columns, rws) ==
    [columns |-> columns,
     rows |-> [i \in DOMAIN rws |-> [idx |-> i - 1, vals |-> rws[i].vals, geom |-> rws[i].geom]],
     crs |-> "wgs84"]

Frames(columns, rowset, n) ==
    {MakeFrame(columns, rws) : rws \in DistinctSeqsUpTo(rowset, n)}

OkSource(frame) == [status |-> "ok", frame |-> frame]
MissingSource == [status |-> "missing", frame |-> EmptyFrame]

T_A == <<"A">>
T_B == <<"B">>
T_P == <<"P">>
T_Q == <<"Q">>
T_2019_06_15 == <<"2", "0", "1", "9", "-", "0", "6", "-", "1", "5">>
T_2020_01_01 == <<"2", "0", "2", "0", "-", "0", "1", "-", "0", "1">>
T_FY19_proj == <<"F", "Y", "1", "9", "-", "p", "r", "o", "j">>
T_FY2019 == <<"F", "Y", "2", "0", "1", "9">>
T_19 == <<"1", "9">>
T_20209915 == <<"2", "0", "2", "0", "9", "9", "1", "5">>

\* Projects with a country, a commitment date and an amount.
MainColumns ==
    <<Name("country", "title"), Name("year", "title"), L("usd_commitment"), GeomCol>>

MainRowSet ==
    {[vals |-> <<Text(T_A), Text(T_2019_06_15), Num(10)>>, geom |-> Pt],
     [vals |-> <<Text(T_A), Text(T_2020_01_01), Num(20)>>, geom |-> Pt],
     [vals |-> <<Text(T_B), Text(T_2020_01_01), Num(30)>>, geom |-> Pt],
     [vals |-> <<Text(T_A), Text(T_FY19_proj), Num(20)>>, geom |-> Pt],
     [vals |-> <<Text(T_B), Text(T_2019_06_15), Null>>, geom |-> Pt]}

MainSources ==
    {OkSource(f) : f \in Frames(MainColumns, MainRowSet, MaxRows)}
        \cup {OkSource(MakeFrame(MainColumns, <<>>)), MissingSource}

(***************************************************************************)
(* One pass over a project dataset.                                        *)
(***************************************************************************)
Init == \E src \in MainSources : Start(src, <<>>, TRUE)

Next ==
    \/ Sidebar
    \/ Load
    \/ DetectColumns
    \/ SelectColumns(KeepAll)
    \/ FilterWidgets
    \/ ApplyFilters
    \/ Diagnostics
    \/ RenderMain
    \/ Overlays
    \/ Finish

Spec == Init /\ [][Next]_vars

(***************************************************************************)
(* Year columns: one column named "year", of numbers, of texts or of       *)
(* timestamps (a column read from a file has one type), rows may repeat.   *)
(***************************************************************************)
YearColumns == <<L("year"), GeomCol>>

NumYearCells == {Num(2019), Num(2020), Num(20190615), Num(20200615), Null}
TextYearCells ==
    {Text(T_2019_06_15), Text(T_FY19_proj), Text(T_FY2019), Text(T_19),
     Text(T_20209915), Null}
StampYearCells == {Stamp(2019), Stamp(2020), Null}

YearFrames ==
    UNION {{MakeFrame(YearColumns, [i \in DOMAIN cells |-> [vals |-> <<cells[i]>>, geom |-> Pt]]) :
                cells \in SeqsUpTo(C, MaxRows)} :
           C \in {NumYearCells, TextYearCells, StampYearCells}}

InitYear == \E f \in YearFrames : Start(OkSource(f), <<>>, TRUE)

SpecYear == InitYear /\ [][Next]_vars

(***************************************************************************)
(* Geometries: distinct projects of every geometry type GeoPandas reads,   *)
(* with a sector and a precision.                                          *)
(***************************************************************************)
T_S == <<"S">>
T_T == <<"T">>

GeomColumns == <<L("sector"), L("geo_precision"), GeomCol>>

GeomRowSet ==
    {[vals |-> <<Text(T_S), Text(T_P)>>, geom |-> Geom("Point")],
     [vals |-> <<Text(T_T), Text(T_P)>>, geom |-> Geom("MultiPoint")],
     [vals |-> <<Text(T_S), Text(T_Q)>>, geom |-> Geom("LineString")],
     [vals |-> <<Text(T_T), Text(T_Q)>>, geom |-> Geom("MultiLineString")],
     [vals |-> <<Text(T_S), Text(T_P)>>, geom |-> Geom("Polygon")],
     [vals |-> <<Text(T_T), Text(T_P)>>, geom |-> Geom("MultiPolygon")],
     [vals |-> <<Text(T_S), Text(T_Q)>>, geom |-> Geom("GeometryCollection")],
     [vals |-> <<Text(T_T), Text(T_Q)>>, geom |-> Geom("null")]}

InitGeom ==
    \E f \in Frames(GeomColumns, GeomRowSet, MaxRows), box \in BOOLEAN :
        Start(OkSource(f), <<>>, box)

SpecGeom == InitGeom /\ [][Next]_vars

(***************************************************************************)
(* Overlays: up to MaxOverlays files in ./overlays, each of which loads,   *)
(* fails to read, is empty or fails to reproject; one project to show.     *)
(***************************************************************************)
OverlayFile(i, outcome) ==
    [name |-> i, suffix |-> IF i % 2 = 1 THEN ".geojson" ELSE ".gpkg", outcome |-> outcome]

OverlayDirs ==
    {[i \in DOMAIN outs |-> OverlayFile(i, outs[i])] :
        outs \in SeqsUpTo(OverlayOutcomes, MaxOverlays)}

OneProject == MakeFrame(<<L("title"), GeomCol>>, <<[vals |-> <<Text(T_A)>>, geom |-> Pt]>>)

InitOverlays ==
    \E dir \in OverlayDirs, box \in BOOLEAN : Start(OkSource(OneProject), dir, box)

SpecOverlays == InitOverlays /\ [][Next]_vars

(***************************************************************************)
(* Schemas: up to MaxCols attribute columns whose names are candidate      *)
(* names or not, written in lower case, title case or upper case.          *)
(***************************************************************************)
SchemaNames ==
    {Name(base, casing) :
        base \in {"country", "recipient_country", "year", "usd_commitment", "title"},
        casing \in {"lower", "title", "upper"}}

SchemaFrames ==
    {MakeFrame(names \o <<GeomCol>>,
               <<[vals |-> [i \in DOMAIN names |-> Null], geom |-> Pt]>>) :
        names \in DistinctSeqsUpTo(SchemaNames, MaxCols)}

InitCols == \E f \in SchemaFrames : Start(OkSource(f), <<>>, TRUE)

NextCols ==
    \/ Sidebar
    \/ Load
    \/ DetectColumns
    \/ \E choice \in OneOverride(gdf) : SelectColumns(choice)

SpecCols == InitCols /\ [][NextCols]_vars

(***************************************************************************)
(* Amounts: projects with every role in their schema, so that each of the  *)
(* five filters can be active in one pass.                                 *)
(***************************************************************************)
AmountColumns ==
    <<L("country"), L("sector"), L("geo_precision"), L("commitment_year"),
      Name("project_value_usd", "upper"), GeomCol>>

AmountRowSet ==
    {[vals |-> <<Text(T_A), Text(T_S), Text(T_P), Text(T_2019_06_15), Num(10)>>, geom |-> Pt],
     [vals |-> <<Text(T_A), Text(T_T), Text(T_Q), Text(T_2020_01_01), Num(20)>>, geom |-> Pt],
     [vals |-> <<Text(T_B), Text(T_S), Text(T_P), Text(T_2020_01_01), Num(30)>>, geom |-> Pt]}

InitAmounts ==
    \E f \in Frames(AmountColumns, AmountRowSet, MaxRows) : Start(OkSource(f), <<>>, FALSE)

SpecAmounts == InitAmounts /\ [][Next]_vars

(***************************************************************************)
(* Loading: every way a GeoPackage or a GeoJSON folder can fail to load,   *)
(* and datasets that load, with no reference system, with EPSG:4326, with  *)
(* another known one or with one that cannot be transformed.               *)
(***************************************************************************)
LoadColumns == <<L("country"), GeomCol>>

LoadRowSet ==
    {[vals |-> <<Text(T_A)>>, geom |-> Pt],
     [vals |-> <<Text(T_B)>>, geom |-> Geom("Polygon")]}

CrsTags == {"none", "wgs84", "other", "bad"}

LoadSources ==
    {[status |-> s, frame |-> EmptyFrame] : s \in ReadFailures \cup {"none_selected"}}
        \cup {[status |-> s, frame |-> [f EXCEPT !.crs = c]] :
                s \in {"ok", "some_skipped"}, c \in CrsTags,
                f \in Frames(LoadColumns, LoadRowSet, MaxRows)
                        \cup {MakeFrame(LoadColumns, <<>>)}}

InitLoad == \E src \in LoadSources, box \in BOOLEAN : Start(src, <<>>, box)

SpecLoad == InitLoad /\ [][Next]_vars

(***************************************************************************)
(* Passes: a session of up to MaxPasses passes over projects with a        *)
(* country, a commitment timestamp and a geometry, and one overlay file.   *)
(***************************************************************************)
PassColumns == <<L("country"), L("year"), GeomCol>>

PassRowSet ==
    {[vals |-> <<Text(T_A), Stamp(2019)>>, geom |-> Pt],
     [vals |-> <<Text(T_B), Stamp(2020)>>, geom |-> Geom("Polygon")],
     [vals |-> <<Text(T_A), Null>>, geom |-> Geom("null")]}

PassSources ==
    {[status |-> "ok", frame |-> [f EXCEPT !.crs = c]] :
        c \in {"wgs84", "other"}, f \in Frames(PassColumns, PassRowSet, MaxRows)}

InitPasses ==
    \E src \in PassSources, box \in BOOLEAN :
        Start(src, <<OverlayFile(1, "ok")>>, box)

NextPasses == Next \/ Rerun

SpecPasses == InitPasses /\ [][NextPasses]_vars

(***************************************************************************)
(* Properties.                                                             *)
(***************************************************************************)
AfterDetect == pc \in {"columns", "widgets"}
AfterColumns == pc = "widgets"
AfterFilter == pc \in {"diagnostics", "render", "overlays", "finish", "done"}
AfterDiagnostics == pc \in {"render", "overlays", "finish", "done"}
AfterRender == pc \in {"overlays", "finish", "done"}
AfterOverlays == pc \in {"finish", "done"}

\* The candidates of a role that some column of the frame matches, ignoring case.
PresentCandidates(columns, role) ==
    {i \in DOMAIN Candidates(role) :
        \E j \in DOMAIN columns : Lower(columns[j]) = Candidates(role)[i]}

\* C5: once detect_columns has run, every role whose candidate list has a
\* name that equals a column name ignoring case is bound to a column of the
\* frame whose lower-case name is the first such candidate in priority
\* order, and every other role is unbound.
C5_DetectFirstCandidate ==
    AfterDetect =>
        \A r \in Roles :
            LET present == PresentCandidates(gdf.columns, r)
            IN  IF present = {} THEN auto_cols[r] = NoneCol
                ELSE /\ auto_cols[r] \in Range(gdf.columns)
                     /\ Lower(auto_cols[r]) \in {Candidates(r)[i] : i \in present}
                     /\ \A i \in present :
                            \E k \in 1..i : Candidates(r)[k] = Lower(auto_cols[r])

\* A schema that holds, not in lower case, a second-priority and a
\* first-priority candidate of one role, and the role is bound to the latter.
C5_Witness ==
    /\ AfterDetect
    /\ Name("recipient_country", "upper") \in Range(gdf.columns)
    /\ Name("country", "title") \in Range(gdf.columns)
    /\ auto_cols["country"] = Name("country", "title")
    /\ auto_cols["sector"] = NoneCol

\* C6: once the five selectboxes are read, the binding of every role is the
\* user's selection when the user made one ("-- None --" unbinds the role)
\* and the detected column only when the user made none; every binding is
\* unbound or an attribute column of the frame, never the geometry column.
C6_OverrideWins ==
    AfterColumns =>
        \A r \in Roles :
            /\ picked[r] \notin {Keep, NoneLabel} => cols[r] = picked[r]
            /\ picked[r] = NoneLabel => cols[r] = NoneCol
            /\ picked[r] = Keep => cols[r] = auto_cols[r]
            /\ cols[r] = NoneCol \/ (cols[r] \in Range(gdf.columns) /\ cols[r] # GeomCol)

\* Detection binds a role to column A and the user selects another column B.
C6_Witness ==
    /\ AfterColumns
    /\ \E r \in Roles :
        /\ auto_cols[r] # NoneCol
        /\ picked[r] \in Range(gdf.columns)
        /\ picked[r] # auto_cols[r]
        /\ cols[r] = picked[r]


\* The year column of the loaded frame, as the diagnostics read it.
YearCells == Column(gdf, cols["year"])
YearBound == cols["year"] # NoneCol /\ cols["year"] \in Range(gdf.columns)

\* C3: the derived year of a year field holding one value is 2019 for the
\* number 2019, 2019 for the text "2019-06-15", 2019 for the number 20190615
\* and undefined for the text "FY19-proj".
C3_YearExamples ==
    (AfterDiagnostics /\ YearBound /\ Len(YearCells) = 1) =>
        /\ YearCells[1] = Num(2019) => y_try[1] = Val(2019)
        /\ YearCells[1] = Text(T_2019_06_15) => y_try[1] = Val(2019)
        /\ YearCells[1] = Num(20190615) => y_try[1] = Val(2019)
        /\ YearCells[1] = Text(T_FY19_proj) => y_try[1] = NaN

\* A field the date parsing gives no year for, with at least one number.
NumericBranch(cells) ==
    /\ DType(cells) # "datetime"
    /\ \A i \in DOMAIN cells : ~ToDatetimeYear(cells[i]).def
    /\ \E i \in DOMAIN cells : ToNumeric(cells[i]).def

\* The records of a field whose numeric value is above 3000.
Above(cells) ==
    {i \in DOMAIN cells : ToNumeric(cells[i]).def /\ ToNumeric(cells[i]).v > YearThreshold}

WithGeometry == {i \in DOMAIN filtered.rows : filtered.rows[i].geom.t # "null"}

\* C7: after the partition every filtered record with a geometry is in
\* exactly one of the point, line and polygon partitions, a record without a
\* geometry is in none, and the three sizes sum to the number of records
\* with a geometry.
C7_PartitionCovers ==
    AfterRender =>
        /\ \A i \in DOMAIN filtered.rows :
            LET id == filtered.rows[i].idx
                n == Cardinality({p \in {"pts", "lines", "polys"} :
                        id \in Ids(CASE p = "pts" -> pts [] p = "lines" -> lines
                                     [] OTHER -> polys)})
            IN  n = IF i \in WithGeometry THEN 1 ELSE 0
        /\ Len(pts.rows) + Len(lines.rows) + Len(polys.rows) = Cardinality(WithGeometry)

\* The selected overlay files that load, and those that do not.
LoadedOverlays == {i \in DOMAIN selected_overlays : selected_overlays[i].outcome = "ok"}
FailedOverlays == DOMAIN selected_overlays \ LoadedOverlays

\* C8: after the overlay loop every selected file that failed (unreadable,
\* empty, not reprojectable) has a warning naming it, every selected file
\* that loaded is a layer of the map, the main layer is still there, the
\* count of added overlays is the number of files that loaded, and the pass
\* goes on to show the map.
C8_OverlayIsolation ==
    AfterOverlays =>
        /\ \A i \in FailedOverlays :
            \E k \in DOMAIN toasts : toasts[k].file = selected_overlays[i].name
        /\ \A i \in LoadedOverlays :
            OverlayLayer(selected_overlays[i].name) \in Range(layers)
        /\ Len(toasts) = Cardinality(FailedOverlays)
        /\ added_overlays = Cardinality(LoadedOverlays)
        /\ MainLayerNamed("Projects (points)") \in Range(layers)
        /\ pc = "done" => shown

\* An overlay that fails to read is followed by one that loads and is shown.
C8_Witness ==
    /\ pc = "done" /\ shown
    /\ \E i, j \in DOMAIN selected_overlays :
        /\ i < j
        /\ selected_overlays[i].outcome = "read_error"
        /\ selected_overlays[j].outcome = "ok"
        /\ OverlayLayer(selected_overlays[j].name) \in Range(layers)
        /\ added_overlays >= 1


\* The text a membership widget compares: the cell of a row of the loaded
\* frame in the column bound to a role.
CellText(i, role) ==
    AsStr(gdf.rows[i].vals[ColIndex(gdf.columns, cols[role])],
          DType(Column(gdf, cols[role])))

\* A row of the loaded frame passes the membership predicate of a role.
Passes(i, role, chosen) ==
    chosen = {} \/ cols[role] = NoneCol \/ CellText(i, role) \in chosen

\* The amount of a row of the loaded frame, as a number.
Amount(i) == ToNumeric(gdf.rows[i].vals[ColIndex(gdf.columns, cols["value"])])

\* The amounts of a set of rows of the loaded frame, in row order.
Amounts(S) == NumericColumn(Mask(gdf, S), cols["value"])

\* The bucket of an amount for breakpoints p33 and p66 (in hundredths).
BucketOf(v, p33, p66) ==
    IF ~v.def THEN "None"
    ELSE IF 100 * v.v <= p33.v THEN "Low"
    ELSE IF 100 * v.v <= p66.v THEN "Medium"
    ELSE "High"

\* The result of the same pass with one selection changed.
ResultWith(s) == apply_filters(gdf, cols, s, simplify).frame

CountryAndBucket ==
    /\ AfterFilter
    /\ sel.countries # {} /\ cols["country"] # NoneCol
    /\ BucketActive(cols, sel)
    /\ sel.sectors = {} /\ sel.prec = {}

\* C1 (as stated): the result of filtering by country = C and bucket = B is
\* the intersection of the result of filtering by country = C alone and the
\* result of filtering by bucket = B alone.
C1_IntersectionOfSingleFilters ==
    CountryAndBucket =>
        Ids(filtered) = Ids(ResultWith([sel EXCEPT !.buckets = {}]))
                            \cap Ids(ResultWith([sel EXCEPT !.countries = {}]))

\* C1 (amended): the result of filtering by country = C and bucket = B is,
\* in the original order, exactly the records of the result of filtering by
\* country = C alone whose bucket is in B, the buckets being taken with the
\* breakpoints of that country = C result; every record of it has its
\* country in C, and it need not lie inside the result of bucket = B alone.
C1_ConjunctionOverCountryResult ==
    CountryAndBucket =>
        LET CO == ResultWith([sel EXCEPT !.buckets = {}])
            S == {i \in DOMAIN gdf.rows : gdf.rows[i].idx \in Ids(CO)}
            p33 == Quantile100(Amounts(S), 33)
            p66 == Quantile100(Amounts(S), 66)
            R == {i \in S : BucketOf(Amount(i), p33, p66) \in sel.buckets}
        IN  /\ [k \in DOMAIN filtered.rows |-> [filtered.rows[k] EXCEPT !.geom = Pt]]
                    = KeepRows(gdf.rows, R, 1)
            /\ \A i \in DOMAIN gdf.rows :
                gdf.rows[i].idx \in Ids(filtered) => CellText(i, "country") \in sel.countries

\* A country and a bucket are chosen, and a record of the result is not in
\* the result of the bucket alone.
C1_Witness ==
    /\ CountryAndBucket
    /\ filtered.rows # <<>>
    /\ ~(Ids(filtered) \subseteq Ids(ResultWith([sel EXCEPT !.countries = {}])))
    /\ Ids(filtered) # Ids(ResultWith([sel EXCEPT !.buckets = {}]))

\* Nothing is chosen and the year slider is left at its default.
EmptySelection ==
    /\ sel.countries = {} /\ sel.sectors = {} /\ sel.prec = {} /\ sel.buckets = {}
    /\ sel.year = DefaultYearRange(gdf, cols)

\* C2: with an empty selection the filtered set holds every record of the
\* loaded set, in the original order, with unchanged attribute values, also
\* when the year role is bound and some records have no derived year.
C2_EmptySelectionKeepsAll ==
    (AfterFilter /\ EmptySelection) =>
        [k \in DOMAIN filtered.rows |-> [idx |-> filtered.rows[k].idx, vals |-> filtered.rows[k].vals]]
            = [i \in DOMAIN gdf.rows |-> [idx |-> gdf.rows[i].idx, vals |-> gdf.rows[i].vals]]


\* The row of the loaded frame with a given index label.
RowOf(id) == CHOOSE i \in DOMAIN gdf.rows : gdf.rows[i].idx = id

\* The labels the bucket step gave, by index label.
Labelled(label) == {b[k].idx : k \in {j \in DOMAIN b : b[j].label = label}}

\* C4: when a bucket selection is applied, every classified record with an
\* amount up to p33 is Low, above p33 and up to p66 is Medium, above p66 is
\* High (an amount equal to a breakpoint is in the lower bucket), a record
\* whose amount is not a number has no bucket, the result holds exactly the
\* records whose bucket is chosen, and with p33 = p66 no record is Medium.
C4_BucketClassification ==
    (AfterFilter /\ BucketActive(cols, sel)) =>
        /\ \A k \in DOMAIN b :
            LET v == Amount(RowOf(b[k].idx))
            IN  /\ ~v.def <=> b[k].label = "None"
                /\ v.def =>
                    /\ q.q1.def /\ q.q2.def /\ q.q1.v <= q.q2.v
                    /\ b[k].label = "Low" <=> 100 * v.v <= q.q1.v
                    /\ b[k].label = "Medium" <=> (q.q1.v < 100 * v.v /\ 100 * v.v <= q.q2.v)
                    /\ b[k].label = "High" <=> 100 * v.v > q.q2.v
        /\ Ids(filtered) = UNION {Labelled(l) : l \in sel.buckets}
        /\ Ids(filtered) \cap Labelled("None") = {}
        /\ q.q1 = q.q2 => Labelled("Medium") = {}

\* Three amounts are classified Low, Medium and High and only some are kept.
C4_Witness ==
    /\ AfterFilter /\ BucketActive(cols, sel)
    /\ Labelled("Low") # {} /\ Labelled("Medium") # {} /\ Labelled("High") # {}
    /\ sel.buckets = {"Low", "Medium"}
    /\ Len(filtered.rows) = 2

\* The rows of the loaded frame that pass the country, sector, year and
\* precision predicates of the selection; the year of a row is the derived
\* year the diagnostics show for it.
Survivors ==
    {i \in DOMAIN gdf.rows :
        /\ Passes(i, "country", sel.countries)
        /\ Passes(i, "sector", sel.sectors)
        /\ Passes(i, "precision", sel.prec)
        /\ (sel.year.on /\ YearBound) =>
                (y_try[i].def /\ sel.year.lo <= y_try[i].v /\ y_try[i].v <= sel.year.hi)}

\* C9: when a bucket selection is applied, p33 and p66 are the 33rd and 66th
\* percentiles of the amounts of the records that pass the country, sector,
\* year and precision predicates, and the records classified are those
\* records: the breakpoints come neither from the whole loaded set nor from
\* the set the bucket predicate leaves.
C9_BreakpointsOverOtherFilters ==
    (AfterDiagnostics /\ BucketActive(cols, sel)) =>
        /\ q.q1 = Quantile100(Amounts(Survivors), 33)
        /\ q.q2 = Quantile100(Amounts(Survivors), 66)
        /\ {b[k].idx : k \in DOMAIN b} = {gdf.rows[i].idx : i \in Survivors}

\* A sector and a precision are chosen, and the breakpoints differ from
\* those of the whole loaded set and from those of the bucket-filtered result.
C9_Witness ==
    /\ AfterDiagnostics /\ BucketActive(cols, sel)
    /\ sel.sectors # {} /\ sel.prec # {} /\ Survivors # DOMAIN gdf.rows
    /\ q.q1.def
    /\ q.q1 # Quantile100(Amounts(DOMAIN gdf.rows), 33)
    /\ q.q2 # Quantile100(NumericColumn(filtered, cols["value"]), 66)


\* What makes the load of the selected source raise, "" when it does not:
\* the reader's failure, or a reference system that cannot be transformed.
LoadFailure ==
    IF source.status \in ReadFailures THEN source.status
    ELSE IF source.status \in {"ok", "some_skipped"} /\ source.frame.crs = "bad"
    THEN "projection"
    ELSE ""

\* No stage after the load has run in this pass.
NothingAfterLoad ==
    /\ gdf = EmptyFrame /\ ~cache.hit
    /\ auto_cols = NoCols /\ picked = KeepAll /\ cols = NoCols /\ sel = NoSel
    /\ filtered = EmptyFrame /\ b = <<>> /\ y_try = <<>>
    /\ pts = EmptyFrame /\ lines = EmptyFrame /\ polys = EmptyFrame
    /\ layers = <<>> /\ toasts = <<>> /\ ~shown /\ exported = EmptyFrame

\* C11: when loading raises (missing file or folder, no layer, no file,
\* no readable file, reference system that cannot be transformed), the pass
\* goes from the load straight to a stop with the reason of the failure
\* shown as an error, and no later stage (detection, filtering, partition,
\* rendering, export) has run or ever runs in that pass; when there is no
\* GeoPackage to select the pass stops the same way with a warning.
C11_FatalLoadStops ==
    /\ LoadFailure # "" =>
        /\ pc \in {"sidebar", "load", "stopped"}
        /\ NothingAfterLoad
        /\ pc = "stopped" =>
            msgs = <<Msg("error", "Load a dataset to begin", LoadFailure)>>
    /\ source.status = "none_selected" =>
        /\ pc \in {"sidebar", "load", "stopped"}
        /\ NothingAfterLoad
        /\ pc = "stopped" => \E k \in DOMAIN msgs : msgs[k].level = "warning"

\* A dataset that was read but cannot be reprojected: the pass has stopped
\* with the error shown.
C11_Witness ==
    /\ pc = "stopped"
    /\ source.status = "ok" /\ source.frame.rows # <<>> /\ source.frame.crs = "bad"
    /\ \E k \in DOMAIN msgs : msgs[k].level = "error" /\ msgs[k].reason = "projection"
    /\ NothingAfterLoad


\* The Record Set as the load normalized it.
AsLoaded == to_wgs84(source.frame)

=============================================================================
